---- MODULE Spec2Model ----
(***************************************************************************)
(* A model of the load-testing tool (load-testing/cmd/load-test): the      *)
(* rotating targeter (targeter.go), the ramp-up pacers (main.go), the      *)
(* configuration and its validation (config.go, validation.go), main's     *)
(* path to the attack (main.go) and the attack itself (attack.go).         *)
(*                                                                         *)
(* Go values are modelled as follows.                                      *)
(*  - A slice ([]byte, []string) is a reference into the heap `mem`: two   *)
(*    slices that share a backing array hold the same address.             *)
(*  - A map built by one call and owned by one target is held by value in  *)
(*    the target record (a function from keys to slice addresses).         *)
(*  - The uint64 rotation counter is an unsigned integer of CounterBits    *)
(*    bits; int(...) reinterprets it as a signed integer of the same       *)
(*    width, and % is Go's truncated remainder.                            *)
(*  - A time.Duration is an integer number of ticks, Second ticks to the   *)
(*    second.  A float64 is an exact rational [n, d] in lowest terms with  *)
(*    d > 0: rounding error of the floating point unit is not modelled.    *)
(***************************************************************************)
EXTENDS Integers, Sequences, FiniteSets, Bags, TLC

(***************************************************************************)
(* Bounds of the model.                                                    *)
(***************************************************************************)
\* Tasks that call the targeter concurrently.
NumTasks == 2
\* Targeter calls started in one run.
MaxCalls == 4
\* Longest template list handed to createRotatingTargeter.
MaxTemplates == 2
\* Width of the rotation counter (stands for the 64 of uint64).
CounterBits == 4
\* Mutations the consumers of returned targets apply in one run.
MaxMutations == 1

\* Ticks to the second (stands for the 1e9 nanoseconds of time.Second).
Second == 1000
\* Elapsed times tried per second.
StepsPerSecond == 2
\* Longest configured test duration, in seconds (at most maxTestDuration).
MaxDuration == 3
\* Largest start or end rate of a ramp; the smallest tried is -1.
MaxRate == 3
\* Largest requestsSoFar handed to a pacer.
MaxHits == 1
\* Hits one attack dispatches.
MaxResults == 2
\* Ticks of the progress ticker in one run.
MaxTicks == 1
\* Longest chain of redirects a server answers with.
MaxChain == 3

Tasks == 1..NumTasks

(***************************************************************************)
(* Request templates (RequestConfig).  A body is a sequence of bytes, each *)
(* byte a one-character string; the empty body is << >>.                   *)
(***************************************************************************)
NoHeaders == [k \in {} |-> ""]

TemplatePool ==
    { [Method |-> "GET",  URL |-> "http://localhost/a", Body |-> << >>,
       ContentType |-> "", Headers |-> NoHeaders],
      [Method |-> "POST", URL |-> "http://localhost/b", Body |-> <<"x", "y">>,
       ContentType |-> "application/json", Headers |-> [k \in {"X-Trace"} |-> "1"]],
      [Method |-> "PUT",  URL |-> "http://localhost/c", Body |-> <<"z">>,
       ContentType |-> "", Headers |-> [k \in {"User-Agent"} |-> "custom"]] }

\* The request lists main hands to the targeter: main exits on an empty list.
TemplateLists ==
    UNION { [1..n -> TemplatePool] : n \in 1..MaxTemplates }

(***************************************************************************)
(* Heap addresses.  Nil is the nil slice.                                  *)
(***************************************************************************)
Nil == <<0, "nil">>
BodyAddr(i) == <<i, "#body">>
HeaderAddr(i, k) == <<i, k>>
\* A slice a consumer allocates for the j-th returned target.
ConsumerAddr(j, k) == <<0 - j, k>>

VARIABLES
    constructed,  \* createRotatingTargeter has returned the targeter
    requests,     \* the []RequestConfig it was given
    processed,    \* the closure's pre-processed requests
    mem,          \* heap: slice address -> contents of the backing array
    counter,      \* the closure's uint64 counter
    pc,           \* per task: "idle", "fetched" (index taken), "panic"
    ticket,       \* per task: the counter value its call obtained
    idx,          \* per task: the index its call computed
    calls,        \* targeter calls started
    overlap,      \* some call started while another was in flight
    returned,     \* the targets filled so far, in order of return
    touched,      \* positions of `returned` whose consumer mutated the target
    cfg,          \* the configuration runRampUpAttack builds its pacer from
    pacer,        \* the pacer createRampUpPacer returned
    last,         \* the last call made on the pacer, and what it returned
    mainpc,       \* main's position, from "start" to "exited" or "crashed"
    config,       \* main's LoadTestConfig
    exitCode,     \* the process's exit code once it has ended
    run,          \* what runAttack built: path, pacer, client, json mode
    stream,       \* the attack: hits dispatched, results in flight, closed
    metrics,      \* the vegeta.Metrics accumulator and the calls made on it
    reporter,     \* runRampUpAttack's ticker and progress goroutine
    given,        \* an input handed to a function called on its own
    result        \* what that function returned

targeterVars == <<constructed, requests, processed, mem, counter, pc, ticket,
                  idx, calls, overlap, returned, touched>>

pacerVars == <<cfg, pacer, last>>

mainVars == <<mainpc, config, exitCode, run, stream, metrics, reporter>>

callVars == <<given, result>>

vars == <<targeterVars, pacerVars, mainVars, callVars>>

\* What the targeter's operations, the pacer's, main's, and a function called
\* on its own leave alone.
notTargeterVars == <<pacerVars, mainVars, callVars>>
notPacerVars == <<targeterVars, mainVars, callVars>>
notMainVars == <<targeterVars, pacerVars, callVars>>
notCallVars == <<targeterVars, pacerVars, mainVars>>

(***************************************************************************)
(* createRotatingTargeter: the pre-processing loop.                        *)
(***************************************************************************)
\* The header keys of the pre-built map of one request.
HeaderKeys(req) ==
    {"User-Agent"}
      \cup (IF req.ContentType /= "" THEN {"Content-Type"} ELSE {})
      \cup DOMAIN req.Headers

\* The value list stored under key k: custom headers are written last.
HeaderValue(req, k) ==
    IF k \in DOMAIN req.Headers THEN <<req.Headers[k]>>
    ELSE IF k = "Content-Type" /\ req.ContentType /= "" THEN <<req.ContentType>>
    ELSE <<"otto-load-test">>

HeaderCount(req) ==
    1 + (IF req.ContentType /= "" THEN 1 ELSE 0) + Cardinality(DOMAIN req.Headers)

ProcessRequest(i, req) ==
    [method      |-> req.Method,
     url         |-> req.URL,
     body        |-> IF req.Body /= << >> THEN BodyAddr(i) ELSE Nil,
     headers     |-> [k \in HeaderKeys(req) |-> HeaderAddr(i, k)],
     headerCount |-> HeaderCount(req)]

\* The backing arrays the pre-processing loop allocates: []byte(req.Body)
\* and one []string{v} literal per header key.
ProcessedAddrs(reqs) ==
    { BodyAddr(i) : i \in { j \in DOMAIN reqs : reqs[j].Body /= << >> } }
      \cup UNION { { HeaderAddr(i, k) : k \in HeaderKeys(reqs[i]) } : i \in DOMAIN reqs }

ProcessedHeap(reqs) ==
    [a \in ProcessedAddrs(reqs) |->
        IF a[2] = "#body" THEN reqs[a[1]].Body ELSE HeaderValue(reqs[a[1]], a[2])]

CreateRotatingTargeter(reqs) ==
    /\ ~constructed
    /\ constructed' = TRUE
    /\ requests' = reqs
    /\ processed' = [i \in DOMAIN reqs |-> ProcessRequest(i, reqs[i])]
    /\ mem' = ProcessedHeap(reqs)
    /\ counter' = 0
    /\ UNCHANGED notTargeterVars
    /\ UNCHANGED <<pc, ticket, idx, calls, overlap, returned, touched>>

(***************************************************************************)
(* The targeter closure.                                                   *)
(***************************************************************************)
Pow2(n) == IF n <= 0 THEN 1 ELSE 2 ^ n

\* uint64 arithmetic wraps.
Uint(x) == x % Pow2(CounterBits)

\* int(u): the same bits read as a signed integer.
ToInt(u) == IF u >= Pow2(CounterBits - 1) THEN u - Pow2(CounterBits) ELSE u

\* Go's a % n for n /= 0: the remainder has the sign of the dividend.
GoRem(a, n) ==
    LET an == IF a < 0 THEN 0 - a ELSE a
        nn == IF n < 0 THEN 0 - n ELSE n
    IN  IF a < 0 THEN 0 - (an % nn) ELSE an % nn

\* atomic.AddUint64(&counter, delta): the new value of the counter.
AddUint64LostUpdate(c, delta) ==
    IF \E u \in Tasks : pc[u] = "fetched" THEN Uint(c) ELSE Uint(c + delta)

AddUint64(c, delta) == Uint(c + delta)

\* int(new - 1) % n, for the new counter value a call obtained.
RotationIndexNoDecrement(new, n) == GoRem(ToInt(new), n)

RotationIndex(new, n) == GoRem(ToInt(Uint(new - 1)), n)

Crashed == \E t \in Tasks : pc[t] = "panic"

\* The first statement of a call: the atomic add and the index.  A list of
\* length zero makes the remainder panic (integer divide by zero).
Fetch(t) ==
    /\ constructed /\ ~Crashed
    /\ pc[t] = "idle"
    /\ calls < MaxCalls
    /\ LET new == AddUint64(counter, 1)
           n   == Len(processed)
       IN  /\ counter' = new
           /\ ticket' = [ticket EXCEPT ![t] = Uint(new - 1)]
           /\ IF n = 0
                THEN /\ pc' = [pc EXCEPT ![t] = "panic"]
                     /\ idx' = idx
                ELSE /\ pc' = [pc EXCEPT ![t] = "fetched"]
                     /\ idx' = [idx EXCEPT ![t] = RotationIndex(new, n)]
    /\ calls' = calls + 1
    /\ overlap' = (overlap \/ \E u \in Tasks \ {t} : pc[u] = "fetched")
    /\ UNCHANGED notTargeterVars
    /\ UNCHANGED <<constructed, requests, processed, mem, returned, touched>>

\* The target a call fills from processed[i] (a 0-based index): the slices
\* are assigned, not copied; the header map is a new map (headerPool is
\* never Put to, so Get returns New()) holding the same value slices.
FillTarget(i) ==
    LET req == processed[i + 1]
    IN  [Method |-> req.method,
         URL    |-> req.url,
         Body   |-> req.body,
         Header |-> [k \in DOMAIN req.headers |-> req.headers[k]]]

\* The rest of a call: index the list (a panic when out of range), fill
\* the target and return.
Fill(t) ==
    /\ ~Crashed
    /\ pc[t] = "fetched"
    /\ IF idx[t] \in 0..(Len(processed) - 1)
         THEN /\ returned' = Append(returned,
                    [task |-> t, ticket |-> ticket[t], idx |-> idx[t],
                     tgt |-> FillTarget(idx[t])])
              /\ pc' = [pc EXCEPT ![t] = "idle"]
         ELSE /\ returned' = returned
              /\ pc' = [pc EXCEPT ![t] = "panic"]
    /\ UNCHANGED notTargeterVars
    /\ UNCHANGED <<constructed, requests, processed, mem, counter, ticket, idx,
                   calls, overlap, touched>>

(***************************************************************************)
(* What a reader sees through a target, and through the stored templates.  *)
(***************************************************************************)
Deref(a) == IF a = Nil THEN << >> ELSE mem[a]

View(tgt) ==
    [Method |-> tgt.Method,
     URL    |-> tgt.URL,
     Body   |-> Deref(tgt.Body),
     Header |-> [k \in DOMAIN tgt.Header |-> Deref(tgt.Header[k])]]

StoredView(i) ==
    [Method |-> processed[i].method,
     URL    |-> processed[i].url,
     Body   |-> Deref(processed[i].body),
     Header |-> [k \in DOMAIN processed[i].headers |-> Deref(processed[i].headers[k])]]

\* The method, URL, body and headers of a request template.
TemplateView(req) ==
    [Method |-> req.Method,
     URL    |-> req.URL,
     Body   |-> req.Body,
     Header |-> [k \in HeaderKeys(req) |-> HeaderValue(req, k)]]

(***************************************************************************)
(* A consumer of a returned target mutating what it was handed.            *)
(***************************************************************************)
MutationsLeft == Cardinality(touched) < MaxMutations

\* tgt.Header[k] = []string{v}: a new key, or a key rebound to a new slice.
SetHeader(j, k, v) ==
    /\ j \in DOMAIN returned /\ MutationsLeft
    /\ returned' = [returned EXCEPT ![j].tgt.Header =
                       [x \in DOMAIN @ \cup {k} |-> IF x = k THEN ConsumerAddr(j, k) ELSE @[x]]]
    /\ mem' = [a \in DOMAIN mem \cup {ConsumerAddr(j, k)} |->
                  IF a = ConsumerAddr(j, k) THEN <<v>> ELSE mem[a]]
    /\ touched' = touched \cup {j}
    /\ UNCHANGED notTargeterVars
    /\ UNCHANGED <<constructed, requests, processed, counter, pc, ticket, idx,
                   calls, overlap>>

\* delete(tgt.Header, k)
DeleteHeader(j, k) ==
    /\ j \in DOMAIN returned /\ MutationsLeft
    /\ k \in DOMAIN returned[j].tgt.Header
    /\ returned' = [returned EXCEPT ![j].tgt.Header = [x \in DOMAIN @ \ {k} |-> @[x]]]
    /\ touched' = touched \cup {j}
    /\ UNCHANGED notTargeterVars
    /\ UNCHANGED <<constructed, requests, processed, mem, counter, pc, ticket,
                   idx, calls, overlap>>

\* tgt.Header[k][0] = v
OverwriteHeaderValue(j, k, v) ==
    /\ j \in DOMAIN returned /\ MutationsLeft
    /\ k \in DOMAIN returned[j].tgt.Header
    /\ mem' = [mem EXCEPT ![returned[j].tgt.Header[k]] = [@ EXCEPT ![1] = v]]
    /\ touched' = touched \cup {j}
    /\ UNCHANGED notTargeterVars
    /\ UNCHANGED <<constructed, requests, processed, counter, pc, ticket, idx,
                   calls, overlap, returned>>

\* tgt.Body[0] = b
OverwriteBodyByte(j, b) ==
    /\ j \in DOMAIN returned /\ MutationsLeft
    /\ returned[j].tgt.Body /= Nil
    /\ mem' = [mem EXCEPT ![returned[j].tgt.Body] = [@ EXCEPT ![1] = b]]
    /\ touched' = touched \cup {j}
    /\ UNCHANGED notTargeterVars
    /\ UNCHANGED <<constructed, requests, processed, counter, pc, ticket, idx,
                   calls, overlap, returned>>

(***************************************************************************)
(* float64 values, as exact rationals in lowest terms.                     *)
(***************************************************************************)
Abs(x) == IF x < 0 THEN 0 - x ELSE x

RECURSIVE GCD(_, _)
GCD(a, b) == IF b = 0 THEN a ELSE GCD(b, a % b)

\* n/d in lowest terms with a positive denominator; d = 0 (a division by
\* zero: an infinity or a NaN) keeps only the sign of n.
Rat(n, d) ==
    IF d = 0 THEN [n |-> IF n > 0 THEN 1 ELSE IF n < 0 THEN 0 - 1 ELSE 0, d |-> 0]
    ELSE LET g == GCD(Abs(n), Abs(d))
             sg == IF d < 0 THEN 0 - 1 ELSE 1
         IN  [n |-> sg * (n \div g), d |-> sg * (d \div g)]

FromInt(i) == [n |-> i, d |-> 1]
RatAdd(a, b) == Rat(a.n * b.d + b.n * a.d, a.d * b.d)
RatMul(a, b) == Rat(a.n * b.n, a.d * b.d)
RatDiv(a, b) == Rat(a.n * b.d, a.d * b.n)
RatLE(a, b) == a.n * b.d <= b.n * a.d
RatLT(a, b) == a.n * b.d < b.n * a.d

\* The conversion of a float64 to an integer type: truncation toward zero.
Trunc(a) == IF a.n < 0 THEN 0 - ((0 - a.n) \div a.d) ELSE a.n \div a.d

\* Duration.Seconds()
Seconds(dur) == Rat(dur, Second)

(***************************************************************************)
(* createRampUpPacer and the pacers it returns.                            *)
(***************************************************************************)
NoPacer == [kind |-> "none"]

ConstantPacer(freq, per) == [kind |-> "constant", Freq |-> freq, Per |-> per]

LinearPacer(startAt, slope) == [kind |-> "linear", StartAt |-> startAt, Slope |-> slope]

RampHoldPacer(startRate, endRate, rampDuration, holdDuration) ==
    [kind |-> "rampHold", startRate |-> startRate, endRate |-> endRate,
     rampDuration |-> rampDuration, holdDuration |-> holdDuration]

\* As createRampUpPacer, testing rampDuration < 0 where the code tests <= 0.
createRampUpPacerStrictHold(startRate, endRate, duration, holdDuration) ==
    IF holdDuration = 0
    THEN LinearPacer([Freq |-> startRate, Per |-> Second],
                     RatDiv(FromInt(endRate - startRate), Seconds(duration)))
    ELSE LET rampDuration == duration - holdDuration
         IN  IF rampDuration < 0
             THEN ConstantPacer(endRate, Second)
             ELSE RampHoldPacer(startRate, endRate, rampDuration, holdDuration)

\* As createRampUpPacer, dividing by float64(duration) where the code
\* divides by duration.Seconds().
createRampUpPacerSlopePerTick(startRate, endRate, duration, holdDuration) ==
    IF holdDuration = 0
    THEN LinearPacer([Freq |-> startRate, Per |-> Second],
                     RatDiv(FromInt(endRate - startRate), FromInt(duration)))
    ELSE LET rampDuration == duration - holdDuration
         IN  IF rampDuration <= 0
             THEN ConstantPacer(endRate, Second)
             ELSE RampHoldPacer(startRate, endRate, rampDuration, holdDuration)

\* As createRampUpPacer, ramping over the whole duration and holding after
\* it.
createRampUpPacerHoldOnTop(startRate, endRate, duration, holdDuration) ==
    IF holdDuration = 0
    THEN LinearPacer([Freq |-> startRate, Per |-> Second],
                     RatDiv(FromInt(endRate - startRate), Seconds(duration)))
    ELSE LET rampDuration == duration - holdDuration
         IN  IF rampDuration <= 0
             THEN ConstantPacer(endRate, Second)
             ELSE RampHoldPacer(startRate, endRate, duration, holdDuration)

createRampUpPacer(startRate, endRate, duration, holdDuration) ==
    IF holdDuration = 0
    THEN LinearPacer([Freq |-> startRate, Per |-> Second],
                     RatDiv(FromInt(endRate - startRate), Seconds(duration)))
    ELSE LET rampDuration == duration - holdDuration
         IN  IF rampDuration <= 0
             THEN ConstantPacer(endRate, Second)
             ELSE RampHoldPacer(startRate, endRate, rampDuration, holdDuration)

(***************************************************************************)
(* rampHoldPacer.Pace                                                      *)
(***************************************************************************)
\* As PaceDone, with > where the code has >=.
PaceDoneStrict(p, elapsed) == elapsed > p.rampDuration + p.holdDuration

\* if elapsed >= p.rampDuration+p.holdDuration
PaceDone(p, elapsed) == elapsed >= p.rampDuration + p.holdDuration

\* The currentRate Pace computes when it is not done.
CurrentRate(p, elapsed) ==
    IF elapsed < p.rampDuration
    THEN LET progress == RatDiv(Seconds(elapsed), Seconds(p.rampDuration))
         IN  RatAdd(FromInt(p.startRate),
                    RatMul(FromInt(p.endRate - p.startRate), progress))
    ELSE FromInt(p.endRate)

\* As WaitTime, with currentRate >= 0 where the code has currentRate > 0.
WaitTimeZeroRateDivides(currentRate) ==
    IF RatLE(FromInt(0), currentRate)
    THEN LET divisor == Trunc(currentRate)
         IN  IF divisor = 0
             THEN [wait |-> 0, done |-> FALSE, panic |-> TRUE]
             ELSE [wait |-> Second \div divisor, done |-> FALSE, panic |-> FALSE]
    ELSE [wait |-> Second, done |-> FALSE, panic |-> FALSE]

\* The wait for a current rate: time.Second / time.Duration(currentRate)
\* when the rate is positive, a panic (integer divide by zero) when the
\* conversion truncates it to zero, and time.Second otherwise.
WaitTime(currentRate) ==
    IF RatLT(FromInt(0), currentRate)
    THEN LET divisor == Trunc(currentRate)
         IN  IF divisor = 0
             THEN [wait |-> 0, done |-> FALSE, panic |-> TRUE]
             ELSE [wait |-> Second \div divisor, done |-> FALSE, panic |-> FALSE]
    ELSE [wait |-> Second, done |-> FALSE, panic |-> FALSE]

Pace(p, elapsed, hits) ==
    IF PaceDone(p, elapsed)
    THEN [wait |-> 0, done |-> TRUE, panic |-> FALSE]
    ELSE WaitTime(CurrentRate(p, elapsed))

(***************************************************************************)
(* rampHoldPacer.Rate                                                      *)
(***************************************************************************)
\* As Rate, with the progress taken over the whole run, not over the ramp.
RateOverWholeRun(p, elapsed) ==
    IF elapsed < p.rampDuration
    THEN LET progress == RatDiv(Seconds(elapsed), Seconds(p.rampDuration + p.holdDuration))
         IN  RatAdd(FromInt(p.startRate),
                    RatMul(FromInt(p.endRate - p.startRate), progress))
    ELSE FromInt(p.endRate)

\* As Rate, ramping from endRate down to startRate.
RateRampReversed(p, elapsed) ==
    IF elapsed < p.rampDuration
    THEN LET progress == RatDiv(Seconds(elapsed), Seconds(p.rampDuration))
         IN  RatAdd(FromInt(p.endRate),
                    RatMul(FromInt(p.startRate - p.endRate), progress))
    ELSE FromInt(p.endRate)

Rate(p, elapsed) ==
    IF elapsed < p.rampDuration
    THEN LET progress == RatDiv(Seconds(elapsed), Seconds(p.rampDuration))
         IN  RatAdd(FromInt(p.startRate),
                    RatMul(FromInt(p.endRate - p.startRate), progress))
    ELSE FromInt(p.endRate)

(***************************************************************************)
(* The library's pacers, as far as the tool relies on them.                *)
(***************************************************************************)
\* Constant variant: the wait is 1/rate; the attacker, not the pacer, ends
\* the run at the duration.
ConstantPace(p, elapsed, hits) ==
    [wait  |-> IF p.Freq > 0 THEN p.Per \div p.Freq ELSE 0,
     done  |-> FALSE,
     panic |-> FALSE]

ConstantRate(p, elapsed) == RatMul(FromInt(p.Freq), Rat(Second, p.Per))

\* Linear variant: the rate at elapsed is StartAt + Slope * seconds.
LinearRate(p, elapsed) ==
    RatAdd(RatMul(FromInt(p.StartAt.Freq), Rat(Second, p.StartAt.Per)),
           RatMul(p.Slope, Seconds(elapsed)))

\* Interface dispatch.
PacerPace(p, elapsed, hits) ==
    IF p.kind = "rampHold" THEN Pace(p, elapsed, hits) ELSE ConstantPace(p, elapsed, hits)

PacerRate(p, elapsed) ==
    IF p.kind = "rampHold" THEN Rate(p, elapsed)
    ELSE IF p.kind = "linear" THEN LinearRate(p, elapsed)
    ELSE ConstantRate(p, elapsed)

(***************************************************************************)
(* The pacer's operations.                                                 *)
(***************************************************************************)
RateValues == (0 - 1)..MaxRate
DurationValues == 1..MaxDuration
HoldValues == (0 - 1)..(MaxDuration + 1)
HitValues == 0..MaxHits
ElapsedValues ==
    { k * (Second \div StepsPerSecond) : k \in 0..((MaxDuration + 1) * StepsPerSecond) }
      \cup { k * Second : k \in 0..(MaxDuration + 1) }

NoConfig == [Duration |-> 0, StartRate |-> 0, EndRate |-> 0, HoldDuration |-> 0]

NoCall == [op |-> "none", elapsed |-> 0, hits |-> 0, wait |-> 0, done |-> FALSE,
           panic |-> FALSE, rate |-> FromInt(0)]

\* runRampUpAttack building its pacer.  The duration went through
\* applyDefaults and validateLimits (1..maxTestDuration seconds); the ramp's
\* rates and hold duration are not validated.
CreateRampUpPacer(d, s, e, h) ==
    /\ pacer = NoPacer
    /\ cfg' = [Duration |-> d, StartRate |-> s, EndRate |-> e, HoldDuration |-> h]
    /\ pacer' = createRampUpPacer(s, e, d * Second, h * Second)
    /\ UNCHANGED last
    /\ UNCHANGED notPacerVars

\* As PaceCall, with a Pace that moves the start of the ramp up to the rate
\* it has just computed.
PaceCallAdvancesSchedule(elapsed, hits) ==
    /\ pacer.kind \in {"rampHold", "constant"}
    /\ ~last.panic
    /\ LET res == PacerPace(pacer, elapsed, hits)
       IN  last' = [op |-> "Pace", elapsed |-> elapsed, hits |-> hits,
                    wait |-> res.wait, done |-> res.done, panic |-> res.panic,
                    rate |-> FromInt(0)]
    /\ pacer' = IF pacer.kind = "rampHold" /\ ~PaceDone(pacer, elapsed)
                THEN [pacer EXCEPT !.startRate = Trunc(CurrentRate(pacer, elapsed))]
                ELSE pacer
    /\ UNCHANGED cfg
    /\ UNCHANGED notPacerVars

\* The attacker asking for the next wait.  A panic ends the process.
PaceCall(elapsed, hits) ==
    /\ pacer.kind \in {"rampHold", "constant"}
    /\ ~last.panic
    /\ LET res == PacerPace(pacer, elapsed, hits)
       IN  last' = [op |-> "Pace", elapsed |-> elapsed, hits |-> hits,
                    wait |-> res.wait, done |-> res.done, panic |-> res.panic,
                    rate |-> FromInt(0)]
    /\ UNCHANGED <<cfg, pacer>>
    /\ UNCHANGED notPacerVars

RateCall(elapsed) ==
    /\ pacer /= NoPacer
    /\ ~last.panic
    /\ last' = [op |-> "Rate", elapsed |-> elapsed, hits |-> 0, wait |-> 0,
                done |-> FALSE, panic |-> FALSE, rate |-> PacerRate(pacer, elapsed)]
    /\ UNCHANGED <<cfg, pacer>>
    /\ UNCHANGED notPacerVars

(***************************************************************************)
(* The configuration (config.go) and its validation (validation.go).       *)
(* A pointer field (to a bool, an int, a RampUpConfig) is the empty tuple *)
(* when nil and a one-element tuple holding the value otherwise.           *)
(***************************************************************************)
defaultTestSeconds == 10
defaultTestRate == 150
defaultTestTimeout == 5
defaultWarmupDelay == 15
maxTestDuration == 1800
maxTestRate == 10000
maxTestTimeout == 30

NilPtr == << >>
Ptr(v) == <<v>>
PtrValue(p) == p[1]

RampUpConfig(s, e, h) == [StartRate |-> s, EndRate |-> e, HoldDuration |-> h]

\* The zero LoadTestConfig, as loadConfigFromFile returns it with an error.
ZeroConfig ==
    [Duration |-> 0, Rate |-> 0, RampUp |-> NilPtr, Timeout |-> 0,
     WarmupDelay |-> 0, KeepAlive |-> NilPtr, HTTP2 |-> NilPtr,
     Redirects |-> NilPtr, ConnectionPool |-> NilPtr, Requests |-> << >>]

\* A variant that forgets the timeout.
applyDefaultsNoTimeout(c) ==
    [c EXCEPT !.Duration = IF @ = 0 THEN defaultTestSeconds ELSE @,
              !.Rate = IF c.RampUp = NilPtr /\ @ = 0 THEN defaultTestRate ELSE @,
              !.WarmupDelay = IF @ = 0 THEN defaultWarmupDelay ELSE @]

applyDefaults(c) ==
    [c EXCEPT !.Duration = IF @ = 0 THEN defaultTestSeconds ELSE @,
              !.Rate = IF c.RampUp = NilPtr /\ @ = 0 THEN defaultTestRate ELSE @,
              !.Timeout = IF @ = 0 THEN defaultTestTimeout ELSE @,
              !.WarmupDelay = IF @ = 0 THEN defaultWarmupDelay ELSE @]

\* The error validateLimits returns: "" is nil.
NoError == ""

\* As validateLimits, refusing a rate equal to the maximum.
validateLimitsRateStrict(c) ==
    IF c.Duration < 0 THEN "duration cannot be negative"
    ELSE IF c.Rate < 0 THEN "rate cannot be negative"
    ELSE IF c.Timeout < 0 THEN "timeout cannot be negative"
    ELSE IF c.WarmupDelay < 0 THEN "warmup delay cannot be negative"
    ELSE IF c.Redirects /= NilPtr /\ PtrValue(c.Redirects) < 0
         THEN "redirects cannot be negative"
    ELSE IF c.Duration > maxTestDuration THEN "duration exceeds maximum allowed"
    ELSE IF c.Rate >= maxTestRate THEN "rate exceeds maximum allowed"
    ELSE IF c.Timeout > maxTestTimeout THEN "timeout exceeds maximum allowed"
    ELSE NoError

validateLimits(c) ==
    IF c.Duration < 0 THEN "duration cannot be negative"
    ELSE IF c.Rate < 0 THEN "rate cannot be negative"
    ELSE IF c.Timeout < 0 THEN "timeout cannot be negative"
    ELSE IF c.WarmupDelay < 0 THEN "warmup delay cannot be negative"
    ELSE IF c.Redirects /= NilPtr /\ PtrValue(c.Redirects) < 0
         THEN "redirects cannot be negative"
    ELSE IF c.Duration > maxTestDuration THEN "duration exceeds maximum allowed"
    ELSE IF c.Rate > maxTestRate THEN "rate exceeds maximum allowed"
    ELSE IF c.Timeout > maxTestTimeout THEN "timeout exceeds maximum allowed"
    ELSE NoError

\* url.Parse on the URLs of the model's requests: scheme and Hostname().
ParseURL(u) ==
    CASE u = "http://localhost/a" -> [scheme |-> "http", host |-> "localhost"]
      [] u = "http://localhost/b" -> [scheme |-> "http", host |-> "localhost"]
      [] u = "http://localhost/c" -> [scheme |-> "http", host |-> "localhost"]
      [] u = "https://10.1.2.3/d" -> [scheme |-> "https", host |-> "10.1.2.3"]
      [] u = "http://example.com/" -> [scheme |-> "http", host |-> "example.com"]
      [] u = "ftp://localhost/f" -> [scheme |-> "ftp", host |-> "localhost"]
      [] u = "HTTP://LocalHost:8080/" -> [scheme |-> "http", host |-> "LocalHost"]
      [] u = "http://127.0.0.1/" -> [scheme |-> "http", host |-> "127.0.0.1"]
      [] u = "http://127.0.0.2/" -> [scheme |-> "http", host |-> "127.0.0.2"]
      [] u = "http://172.16.0.1/" -> [scheme |-> "http", host |-> "172.16.0.1"]
      [] u = "http://172.32.0.1/" -> [scheme |-> "http", host |-> "172.32.0.1"]
      [] u = "http://192.168.1.1/" -> [scheme |-> "http", host |-> "192.168.1.1"]
      [] u = "http://8.8.8.8/" -> [scheme |-> "http", host |-> "8.8.8.8"]
      [] u = "http://localhost@example.com/" -> [scheme |-> "http", host |-> "example.com"]
      [] u = "http:///a" -> [scheme |-> "http", host |-> ""]
      [] u = "localhost/a" -> [scheme |-> "", host |-> ""]
      [] OTHER -> [scheme |-> "", host |-> ""]

\* strings.ToLower / ToUpper on the hosts and methods of the model's requests.
ToLower(s) ==
    CASE s = "LOCALHOST" -> "localhost"
      [] s = "LocalHost" -> "localhost"
      [] OTHER -> s

ToUpper(s) ==
    CASE s = "get" -> "GET"
      [] s = "Post" -> "POST"
      [] s = "trace" -> "TRACE"
      [] OTHER -> s

APPROVED_DOMAINS == <<"localhost", "127.0.0.1">>

ALLOWED_HTTP_METHODS == <<"GET", "POST", "PUT", "DELETE", "PATCH", "HEAD", "OPTIONS">>

\* net.ParseIP on the hosts of the model's requests: the four octets, or the
\* empty tuple for a host that is no IP literal.
ParseIP(host) ==
    CASE host = "127.0.0.1" -> <<127, 0, 0, 1>>
      [] host = "127.0.0.2" -> <<127, 0, 0, 2>>
      [] host = "10.1.2.3" -> <<10, 1, 2, 3>>
      [] host = "172.16.0.1" -> <<172, 16, 0, 1>>
      [] host = "172.32.0.1" -> <<172, 32, 0, 1>>
      [] host = "192.168.1.1" -> <<192, 168, 1, 1>>
      [] host = "8.8.8.8" -> <<8, 8, 8, 8>>
      [] OTHER -> << >>

\* ipnet.Contains for the three private ranges.
InPrivateRange(ip) ==
    \/ ip[1] = 10
    \/ ip[1] = 172 /\ ip[2] \div 16 = 1
    \/ ip[1] = 192 /\ ip[2] = 168

\* isApprovedTarget: "" is nil.
isApprovedTarget(targetURL) ==
    LET parsed == ParseURL(targetURL)
        host == parsed.host
    IN  IF parsed.scheme \notin {"http", "https"} THEN "only HTTP and HTTPS schemes are allowed"
        ELSE IF host = "" THEN "no hostname in URL"
        ELSE IF \E i \in 1..Len(APPROVED_DOMAINS) : ToLower(host) = ToLower(APPROVED_DOMAINS[i])
             THEN NoError
        ELSE IF ParseIP(host) = << >> THEN "target is not in approved domains list"
        ELSE IF InPrivateRange(ParseIP(host)) THEN NoError
        ELSE "target IP is not in approved private ranges"

isAllowedMethod(method) ==
    \E i \in 1..Len(ALLOWED_HTTP_METHODS) : ToUpper(method) = ALLOWED_HTTP_METHODS[i]

\* As RequestError, looking at the URL before the method.
RequestErrorURLFirst(req) ==
    IF isApprovedTarget(req.URL) /= NoError THEN isApprovedTarget(req.URL)
    ELSE IF ~isAllowedMethod(req.Method) THEN "invalid HTTP method"
    ELSE NoError

\* The error of one request: the method is looked at before the URL.
RequestError(req) ==
    IF ~isAllowedMethod(req.Method) THEN "invalid HTTP method"
    ELSE isApprovedTarget(req.URL)

\* validateRequests: the 1-based position of the first offending request and
\* its error, or position 0 and nil.
validateRequests(reqs) ==
    LET bad == { i \in 1..Len(reqs) : RequestError(reqs[i]) /= NoError }
    IN  IF bad = {} THEN [index |-> 0, error |-> NoError]
        ELSE LET first == CHOOSE i \in bad : \A j \in bad : i <= j
             IN  [index |-> first, error |-> RequestError(reqs[first])]

(***************************************************************************)
(* headerStrippingTransport.RoundTrip (attack.go) and the requests the     *)
(* attacker hands to it.  An http.Header is a map from header names, as    *)
(* they were stored, to values.                                            *)
(***************************************************************************)
\* textproto.CanonicalMIMEHeaderKey on the header names of the model.
CanonicalMIMEHeaderKey(k) ==
    CASE k = "x-vegeta-seq" -> "X-Vegeta-Seq"
      [] k = "X-VEGETA-ATTACK" -> "X-Vegeta-Attack"
      [] k = "x-trace" -> "X-Trace"
      [] OTHER -> k

\* Header.Del(key): delete(h, CanonicalMIMEHeaderKey(key)).
HeaderDel(h, key) ==
    [k \in DOMAIN h \ {CanonicalMIMEHeaderKey(key)} |-> h[k]]

\* Header.Set(key, value): h[CanonicalMIMEHeaderKey(key)] = []string{value}.
HeaderSet(h, key, value) ==
    [k \in DOMAIN h \cup {CanonicalMIMEHeaderKey(key)} |->
        IF k = CanonicalMIMEHeaderKey(key) THEN <<value>> ELSE h[k]]

\* The request the attacker builds for a hit from the target the targeter
\* filled: the target's header map is copied key by key as it is stored,
\* then X-Vegeta-Attack is set when the attack has a name, and X-Vegeta-Seq.
HitRequest(tgt, name, seq) ==
    LET named == IF name /= "" THEN HeaderSet(tgt.Header, "X-Vegeta-Attack", name)
                 ELSE tgt.Header
    IN  [Method |-> tgt.Method, URL |-> tgt.URL, Body |-> tgt.Body,
         Header |-> HeaderSet(named, "X-Vegeta-Seq", seq)]

NoRequest == [Method |-> "", URL |-> "", Body |-> << >>, Header |-> NoHeaders]

\* What the base transport returns: a response (its status code) or an error.
NoAnswer == [code |-> 0, error |-> NoError]

BaseAnswers ==
    { [code |-> 200, error |-> NoError],
      [code |-> 302, error |-> NoError],
      [code |-> 0, error |-> "connection refused"] }

\* As RoundTrip, deleting X-Vegeta-Seq only.
RoundTripKeepsAttack(req, answer) ==
    [sent   |-> [req EXCEPT !.Header = HeaderDel(@, "X-Vegeta-Seq")],
     answer |-> answer]

\* RoundTrip: the request handed to the base transport, and what is
\* returned to the caller when the base transport returns `answer`.
RoundTrip(req, answer) ==
    [sent   |-> [req EXCEPT
                   !.Header = HeaderDel(HeaderDel(@, "X-Vegeta-Attack"), "X-Vegeta-Seq")],
     answer |-> answer]

(***************************************************************************)
(* The HTTP client (attack.go, createHeaderStrippingClient).  The attacker *)
(* options runAttack builds before vegeta.Client(client) act on the client *)
(* that vegeta.Client then replaces: the run's client is this one.         *)
(***************************************************************************)
\* CheckRedirect policies: nil leaves Go's default policy in place.
DefaultPolicy == [kind |-> "default", limit |-> 0]
UseLastResponse == [kind |-> "useLast", limit |-> 0]
LimitPolicy(n) == [kind |-> "limit", limit |-> n]

createHeaderStrippingClient(c) ==
    [DisableKeepAlives |-> IF c.KeepAlive /= NilPtr THEN ~PtrValue(c.KeepAlive) ELSE FALSE,
     ForceAttemptHTTP2 |-> FALSE,
     CustomDialer |-> FALSE,
     Timeout |-> c.Timeout * Second,
     CheckRedirect |-> IF c.Redirects = NilPtr THEN DefaultPolicy
                       ELSE IF PtrValue(c.Redirects) = 0 THEN UseLastResponse
                       ELSE LimitPolicy(PtrValue(c.Redirects))]

\* What CheckRedirect answers with len(via) requests made so far: "follow"
\* (nil), "useLast" (http.ErrUseLastResponse) or "error".
CheckRedirect(policy, lenVia) ==
    IF policy.kind = "useLast" THEN "useLast"
    ELSE IF policy.kind = "limit"
         THEN IF lenVia >= policy.limit THEN "useLast" ELSE "follow"
    ELSE IF lenVia >= 10 THEN "error" ELSE "follow"

\* http.Client.Do against a server that answers the first `chain` requests
\* with a redirect and the next with 200: `sent` requests were made so far.
\* The client asks CheckRedirect before each follow-up request, with via =
\* the requests made so far.
RECURSIVE ClientDo(_, _, _)
ClientDo(client, chain, sent) ==
    IF sent > chain
    THEN [followed |-> sent - 1, code |-> 200, error |-> NoError]
    ELSE LET verdict == CheckRedirect(client.CheckRedirect, sent)
         IN  IF verdict = "follow" THEN ClientDo(client, chain, sent + 1)
             ELSE IF verdict = "useLast"
                  THEN [followed |-> sent - 1, code |-> 302, error |-> NoError]
             ELSE [followed |-> sent - 1, code |-> 0, error |-> "stopped after 10 redirects"]

\* Whether connections to one host are reused, and whether HTTP/2 is
\* offered on TLS connections: Go's transport offers it by itself unless a
\* dialer or a TLS configuration of the caller's is set.
KeepsAlive(client) == ~client.DisableKeepAlives
UsesHTTP2(client) == client.ForceAttemptHTTP2 \/ ~client.CustomDialer

(***************************************************************************)
(* Outcome records and the metrics accumulator (vegeta.Result, Metrics).   *)
(***************************************************************************)
\* A success, an HTTP error status and a transport failure.
Outcomes ==
    { [Code |-> 200, Error |-> "", BytesIn |-> 2, BytesOut |-> 1],
      [Code |-> 500, Error |-> "500 Internal Server Error", BytesIn |-> 1, BytesOut |-> 1],
      [Code |-> 0, Error |-> "connection refused", BytesIn |-> 0, BytesOut |-> 0] }

StatusCodes == { o.Code : o \in Outcomes }

ZeroMetrics ==
    [Requests |-> 0, BytesIn |-> 0, BytesOut |-> 0, success |-> 0,
     StatusCodes |-> [code \in StatusCodes |-> 0], Errors |-> << >>,
     Success |-> FromInt(0)]

\* A variant whose byte total depends on the order of arrival.
MetricsAddLastBytes(m, r) ==
    [m EXCEPT !.Requests = @ + 1,
              !.StatusCodes[r.Code] = @ + 1,
              !.BytesOut = @ + r.BytesOut,
              !.BytesIn = r.BytesIn,
              !.success = IF r.Code >= 200 /\ r.Code < 400 THEN @ + 1 ELSE @]

\* Metrics.Add: the error list keeps each distinct error once, in the order
\* of first arrival.
MetricsAdd(m, r) ==
    [m EXCEPT !.Requests = @ + 1,
              !.StatusCodes[r.Code] = @ + 1,
              !.BytesOut = @ + r.BytesOut,
              !.BytesIn = @ + r.BytesIn,
              !.success = IF r.Code >= 200 /\ r.Code < 400 THEN @ + 1 ELSE @,
              !.Errors = IF r.Error /= "" /\ \A i \in 1..Len(@) : @[i] /= r.Error
                         THEN Append(@, r.Error) ELSE @]

\* Metrics.Close: the success ratio is computed from the counters.
MetricsClose(m) ==
    [m EXCEPT !.Success = IF m.Requests > 0 THEN Rat(m.success, m.Requests)
                          ELSE FromInt(0)]

RECURSIVE AddAll(_, _)
AddAll(m, rs) == IF rs = << >> THEN m ELSE AddAll(MetricsAdd(m, Head(rs)), Tail(rs))

(***************************************************************************)
(* The inputs of a run: the command line and the configuration file.       *)
(***************************************************************************)
\* Requests of a configuration file: an approved one, one whose host is not
\* approved and one whose method is not allowed.
FileRequests ==
    { [Method |-> "GET",  URL |-> "http://localhost/a", Body |-> << >>,
       ContentType |-> "", Headers |-> NoHeaders],
      [Method |-> "GET",  URL |-> "http://example.com/", Body |-> << >>,
       ContentType |-> "", Headers |-> NoHeaders],
      [Method |-> "trace", URL |-> "http://localhost/a", Body |-> << >>,
       ContentType |-> "", Headers |-> NoHeaders] }

\* Request lists of a configuration file, the empty one included.
FileRequestLists ==
    UNION { [1..n -> FileRequests] : n \in 0..MaxTemplates }

GoodRequests ==
    << [Method |-> "GET",  URL |-> "http://localhost/a", Body |-> << >>,
        ContentType |-> "", Headers |-> NoHeaders] >>

\* The headers of a request in a configuration file, under the names the
\* user wrote.
UserHeaders ==
    { NoHeaders,
      [k \in {"X-Trace"} |-> "1"],
      [k \in {"x-trace", "X-Vegeta-Attack"} |-> "mine"],
      [k \in {"X-Vegeta-Seq"} |-> "7"],
      [k \in {"x-vegeta-seq"} |-> "7"] }

\* The requests the attacker sends through the client: one per template,
\* built from the target the targeter fills.  runAttack names its attack "".
HitRequests ==
    { HitRequest(TemplateView([t EXCEPT !.Headers = h]), "", "1") :
          t \in TemplatePool, h \in UserHeaders }

\* A file that sets nothing but its requests.
BareConfig == [ZeroConfig EXCEPT !.Requests = GoodRequests]

DurationInputs == {0 - 1, 0, 1, MaxDuration, maxTestDuration + 1}
RateInputs == {0 - 1, 0, MaxRate, maxTestRate + 1}
TimeoutInputs == {0, maxTestTimeout + 1}
WarmupInputs == {0 - 1, 0}
RedirectInputs == {NilPtr, Ptr(0 - 1), Ptr(0), Ptr(1), Ptr(2)}
BoolInputs == {NilPtr, Ptr(FALSE), Ptr(TRUE)}
RampStartInputs == {0 - 1, 0, 2}
RampEndInputs == {0, 2, maxTestRate + 1}
RampHoldInputs == {0, 1, MaxDuration}

\* Files that vary the limits, the ramp, the requests and the transport.
LimitConfigs ==
    { [BareConfig EXCEPT !.Duration = d, !.Rate = r, !.Timeout = t, !.WarmupDelay = w] :
        d \in DurationInputs, r \in RateInputs, t \in TimeoutInputs, w \in WarmupInputs }

RampConfigs ==
    { [BareConfig EXCEPT !.Duration = d, !.Rate = r,
                         !.RampUp = Ptr(RampUpConfig(s, e, h))] :
        d \in {MaxDuration}, r \in {0, MaxRate},
        s \in RampStartInputs, e \in RampEndInputs, h \in RampHoldInputs }

RequestConfigs ==
    { [BareConfig EXCEPT !.Requests = reqs] : reqs \in FileRequestLists }

TransportConfigs ==
    { [BareConfig EXCEPT !.Duration = 1, !.KeepAlive = k, !.HTTP2 = h, !.Redirects = n] :
        k \in BoolInputs, h \in BoolInputs, n \in RedirectInputs }

\* Configurations at, inside and outside every limit validateLimits tests,
\* with and without a ramp.
LimitCallConfigs ==
    { [BareConfig EXCEPT !.Duration = d, !.Rate = r, !.Timeout = t,
                         !.WarmupDelay = w, !.Redirects = n, !.RampUp = u] :
        d \in {0 - 1, 0, maxTestDuration, maxTestDuration + 1},
        r \in {0 - 1, 0, maxTestRate, maxTestRate + 1},
        t \in {0 - 1, 0, maxTestTimeout, maxTestTimeout + 1},
        w \in {0 - 1, 0, 1},
        n \in {NilPtr, Ptr(0 - 1), Ptr(0), Ptr(1)},
        u \in {NilPtr, Ptr(RampUpConfig(0 - 1, maxTestRate + 1, 0 - 1))} }

\* Requests handed to validateRequests: methods in several spellings and
\* not allowed, schemes and hosts approved and not.
CallRequestPool ==
    { [Method |-> m, URL |-> "http://localhost/a", Body |-> << >>,
       ContentType |-> "", Headers |-> NoHeaders] : m \in {"GET", "get", "Post", "trace", ""} }
      \cup
    { [Method |-> "GET", URL |-> u, Body |-> << >>,
       ContentType |-> "", Headers |-> NoHeaders] :
          u \in {"https://10.1.2.3/d", "HTTP://LocalHost:8080/", "http://127.0.0.1/",
                 "http://172.16.0.1/", "http://192.168.1.1/",
                 "http://example.com/", "ftp://localhost/f", "http://127.0.0.2/",
                 "http://172.32.0.1/", "http://8.8.8.8/",
                 "http://localhost@example.com/", "http:///a", "localhost/a"} }
      \cup
    { [Method |-> "trace", URL |-> "http://example.com/", Body |-> << >>,
       ContentType |-> "", Headers |-> NoHeaders] }

CallRequestLists ==
    UNION { [1..n -> CallRequestPool] : n \in 0..MaxTemplates }

\* The files of the runs, and the configurations handed to single functions.
ConfigFiles == LimitConfigs \cup RampConfigs \cup RequestConfigs

AnyConfigs == ConfigFiles \cup TransportConfigs

(***************************************************************************)
(* main (main.go) and runAttack (attack.go).                                *)
(***************************************************************************)
exitSuccess == 0
exitError == 1
\* The exit code of a Go process that ends in a panic.
exitPanic == 2
\* The process is still running.
NotExited == 0 - 1

NoRun ==
    [json |-> FALSE, load |-> "none", loaded |-> ZeroConfig, warmed |-> FALSE, path |-> "none",
     pacer |-> NoPacer, client |-> createHeaderStrippingClient(ZeroConfig)]

NoStream == [hits |-> 0, stopped |-> FALSE, inflight |-> {}, produced |-> << >>]

\* The tasks of a run: the one that runs main and runAttack, the progress
\* goroutine, and the attacker's workers that carry out the hits.
MainTask == "main"
ReporterTask == "reporter"
WorkerTask == "worker"

\* `by` holds the tasks that have called Add or Close on the accumulator.
NoMetrics ==
    [acc |-> ZeroMetrics, added |-> << >>, closes |-> 0, addsAfterClose |-> 0,
     by |-> {}]

NoReporter == [state |-> "none", stopped |-> FALSE, tick |-> 0, ticks |-> 0, printed |-> 0]

MainInit ==
    /\ mainpc = "start"
    /\ config = ZeroConfig
    /\ exitCode = NotExited
    /\ run = NoRun
    /\ stream = NoStream
    /\ metrics = NoMetrics
    /\ reporter = NoReporter

\* os.Exit(exitError).
Exit1 ==
    /\ mainpc' = "exited"
    /\ exitCode' = exitError

\* main: the flags and loadConfigFromFile.  `outcome` is "noFlag" when
\* -config is missing, "loadError" when the file cannot be loaded, and "ok"
\* when it holds the configuration `file`.
LoadConfig(json, outcome, file) ==
    /\ mainpc = "start"
    /\ run' = [run EXCEPT !.json = json,
                          !.load = outcome,
                          !.loaded = IF outcome = "ok" THEN file ELSE ZeroConfig]
    /\ IF outcome = "ok"
       THEN mainpc' = "loaded" /\ config' = file /\ UNCHANGED exitCode
       ELSE Exit1 /\ UNCHANGED config
    /\ UNCHANGED <<stream, metrics, reporter>>
    /\ UNCHANGED notMainVars

\* main: len(requests) == 0.
CheckRequests ==
    /\ mainpc = "loaded"
    /\ IF Len(config.Requests) = 0
       THEN Exit1
       ELSE mainpc' = "nonEmpty" /\ UNCHANGED exitCode
    /\ UNCHANGED <<config, run, stream, metrics, reporter>>
    /\ UNCHANGED notMainVars

\* A variant of main that does not look at validateRequests' error.
ValidateRequestsIgnored ==
    /\ mainpc = "nonEmpty"
    /\ mainpc' = "validated"
    /\ UNCHANGED <<config, exitCode, run, stream, metrics, reporter>>
    /\ UNCHANGED notMainVars

\* main: validateRequests(requests).
ValidateRequests ==
    /\ mainpc = "nonEmpty"
    /\ IF validateRequests(config.Requests).error /= NoError
       THEN Exit1
       ELSE mainpc' = "validated" /\ UNCHANGED exitCode
    /\ UNCHANGED <<config, run, stream, metrics, reporter>>
    /\ UNCHANGED notMainVars

\* main: config.applyDefaults().
ApplyDefaults ==
    /\ mainpc = "validated"
    /\ config' = applyDefaults(config)
    /\ mainpc' = "defaulted"
    /\ UNCHANGED <<exitCode, run, stream, metrics, reporter>>
    /\ UNCHANGED notMainVars

\* main: validateLimits(&config).
ValidateLimits ==
    /\ mainpc = "defaulted"
    /\ IF validateLimits(config) /= NoError
       THEN Exit1
       ELSE mainpc' = "limitsOk" /\ UNCHANGED exitCode
    /\ UNCHANGED <<config, run, stream, metrics, reporter>>
    /\ UNCHANGED notMainVars

\* main: the start-up messages and the warm-up sleep.
WarmUp ==
    /\ mainpc = "limitsOk"
    /\ mainpc' = "warm"
    /\ run' = [run EXCEPT !.warmed = TRUE]
    /\ UNCHANGED <<config, exitCode, stream, metrics, reporter>>
    /\ UNCHANGED notMainVars

\* runAttack up to the call of attacker.Attack: the client, the attacker and,
\* on the ramp path, the pacer, the ticker and the progress goroutine.  The
\* targeter it builds is the subject of Spec.
StartAttack ==
    /\ mainpc = "warm"
    /\ mainpc' = "attack"
    /\ LET ramp == config.RampUp /= NilPtr
       IN  /\ run' = [run EXCEPT
                 !.path = IF ramp THEN "ramp" ELSE "constant",
                 !.client = createHeaderStrippingClient(config),
                 !.pacer = IF ramp
                           THEN createRampUpPacer(PtrValue(config.RampUp).StartRate,
                                                  PtrValue(config.RampUp).EndRate,
                                                  config.Duration * Second,
                                                  PtrValue(config.RampUp).HoldDuration * Second)
                           ELSE ConstantPacer(config.Rate, Second)]
           /\ reporter' = IF ramp /\ ~run.json
                          THEN [reporter EXCEPT !.state = "select"]
                          ELSE reporter
    /\ UNCHANGED <<config, exitCode, stream, metrics>>
    /\ UNCHANGED notMainVars

(***************************************************************************)
(* The attack: attacker.Attack paces and dispatches the hits, the hits     *)
(* complete in any order, and the loop of runConstantRateAttack or of      *)
(* runRampUpAttack adds each result to the metrics.                        *)
(***************************************************************************)
\* The moments at which the attacker may look at its clock.
AttackElapsed(du) == ElapsedValues \cup {du, du + 1}

\* What the attacker learns from the pacer: the linear pacer of the library
\* never ends the run and never faults.
PaceOutcome(p, elapsed, hits) ==
    IF p.kind = "linear"
    THEN [done |-> FALSE, panic |-> FALSE]
    ELSE [done |-> PacerPace(p, elapsed, hits).done,
          panic |-> PacerPace(p, elapsed, hits).panic]

\* One turn of the attacker's loop at `elapsed`: past the duration or on
\* done it stops dispatching, on a fault in Pace the process dies, and
\* otherwise it dispatches a hit whose outcome will be `outcome`.
AttackTurn(elapsed, outcome) ==
    /\ mainpc = "attack"
    /\ ~stream.stopped
    /\ LET du == config.Duration * Second
           res == PaceOutcome(run.pacer, elapsed, stream.hits)
       IN  IF elapsed > du
           THEN /\ stream' = [stream EXCEPT !.stopped = TRUE]
                /\ UNCHANGED <<mainpc, exitCode>>
           ELSE IF res.panic
           THEN /\ mainpc' = "crashed"
                /\ exitCode' = exitPanic
                /\ UNCHANGED stream
           ELSE IF res.done
           THEN /\ stream' = [stream EXCEPT !.stopped = TRUE]
                /\ UNCHANGED <<mainpc, exitCode>>
           ELSE /\ stream.hits < MaxResults
                /\ stream' = [stream EXCEPT !.hits = @ + 1,
                                            !.inflight = @ \cup {stream.hits + 1},
                                            !.produced = Append(@, outcome)]
                /\ UNCHANGED <<mainpc, exitCode>>
    /\ UNCHANGED <<config, run, metrics, reporter>>
    /\ UNCHANGED notMainVars

\* A variant of the loop that adds successes only.
AddResultDropsFailures(i) ==
    /\ mainpc = "attack"
    /\ i \in stream.inflight
    /\ stream' = [stream EXCEPT !.inflight = @ \ {i}]
    /\ metrics' = IF stream.produced[i].Code = 200
                  THEN [metrics EXCEPT !.acc = MetricsAdd(@, stream.produced[i]),
                                       !.added = Append(@, i),
                                       !.by = @ \cup {MainTask}]
                  ELSE metrics
    /\ UNCHANGED <<mainpc, config, exitCode, run, reporter>>
    /\ UNCHANGED notMainVars

\* A variant in which each worker adds the result of its own hit, as soon as
\* the hit completes.
AddResultInWorker(i) ==
    /\ mainpc = "attack"
    /\ i \in stream.inflight
    /\ stream' = [stream EXCEPT !.inflight = @ \ {i}]
    /\ metrics' = [metrics EXCEPT !.acc = MetricsAdd(@, stream.produced[i]),
                                  !.added = Append(@, i),
                                  !.by = @ \cup {WorkerTask},
                                  !.addsAfterClose = IF metrics.closes > 0 THEN @ + 1 ELSE @]
    /\ UNCHANGED <<mainpc, config, exitCode, run, reporter>>
    /\ UNCHANGED notMainVars

\* The loop body: the i-th hit has completed, its result is received from
\* the stream and added.
AddResult(i) ==
    /\ mainpc = "attack"
    /\ i \in stream.inflight
    /\ stream' = [stream EXCEPT !.inflight = @ \ {i}]
    /\ metrics' = [metrics EXCEPT !.acc = MetricsAdd(@, stream.produced[i]),
                                  !.added = Append(@, i),
                                  !.by = @ \cup {MainTask},
                                  !.addsAfterClose = IF metrics.closes > 0 THEN @ + 1 ELSE @]
    /\ UNCHANGED <<mainpc, config, exitCode, run, reporter>>
    /\ UNCHANGED notMainVars

\* A variant of the loop that leaves as soon as the attacker stops
\* dispatching, with results still in flight.
DrainEndEarly ==
    /\ mainpc = "attack"
    /\ stream.stopped
    /\ mainpc' = IF reporter.state = "select" THEN "drained" ELSE "closing"
    /\ UNCHANGED <<config, exitCode, run, stream, metrics, reporter>>
    /\ UNCHANGED notMainVars

\* The stream is closed once the attacker has stopped and every hit in
\* flight has delivered its result: the loop ends.
DrainEnd ==
    /\ mainpc = "attack"
    /\ stream.stopped
    /\ stream.inflight = {}
    /\ mainpc' = IF reporter.state = "select" THEN "drained" ELSE "closing"
    /\ UNCHANGED <<config, exitCode, run, stream, metrics, reporter>>
    /\ UNCHANGED notMainVars

\* The ticker fires: its channel holds one tick at most.
Tick ==
    /\ reporter.state = "select"
    /\ mainpc \in {"attack", "drained"}
    /\ ~reporter.stopped
    /\ reporter.tick = 0
    /\ reporter.ticks < MaxTicks
    /\ reporter' = [reporter EXCEPT !.tick = 1, !.ticks = @ + 1]
    /\ UNCHANGED <<mainpc, config, exitCode, run, stream, metrics>>
    /\ UNCHANGED notMainVars

\* Whether the progress goroutine prints a rate for a tick at `elapsed`.
ReporterPrints(c, elapsed) ==
    LET duration == c.Duration * Second
        holdDuration == PtrValue(c.RampUp).HoldDuration * Second
        rampDuration == duration - holdDuration
    IN  /\ elapsed < duration
        /\ \/ holdDuration > 0 /\ elapsed >= rampDuration
           \/ rampDuration > 0

\* A variant of the progress goroutine that returns by itself on the first
\* tick it takes once the run's duration has passed.
ReportTickReturnsAfterRun(elapsed) ==
    /\ reporter.state = "select"
    /\ mainpc \in {"attack", "drained", "sending"}
    /\ reporter.tick = 1
    /\ reporter' = [reporter EXCEPT !.tick = 0,
                                    !.state = IF elapsed >= config.Duration * Second
                                              THEN "exited" ELSE @,
                                    !.printed = IF ReporterPrints(config, elapsed)
                                                THEN @ + 1 ELSE @]
    /\ UNCHANGED <<mainpc, config, exitCode, run, stream, metrics>>
    /\ UNCHANGED notMainVars

\* The progress goroutine takes a tick.
ReportTick(elapsed) ==
    /\ reporter.state = "select"
    /\ mainpc \in {"attack", "drained", "sending"}
    /\ reporter.tick = 1
    /\ reporter' = [reporter EXCEPT !.tick = 0,
                                    !.printed = IF ReporterPrints(config, elapsed)
                                                THEN @ + 1 ELSE @]
    /\ UNCHANGED <<mainpc, config, exitCode, run, stream, metrics>>
    /\ UNCHANGED notMainVars

\* runRampUpAttack after its loop: updateTicker.Stop().
StopTicker ==
    /\ mainpc = "drained"
    /\ mainpc' = "sending"
    /\ reporter' = [reporter EXCEPT !.stopped = TRUE]
    /\ UNCHANGED <<config, exitCode, run, stream, metrics>>
    /\ UNCHANGED notMainVars

\* tickerDone <- true meets the goroutine's receive: the goroutine returns
\* and runRampUpAttack goes on.
SendTickerDone ==
    /\ mainpc = "sending"
    /\ reporter.state = "select"
    /\ mainpc' = "closing"
    /\ reporter' = [reporter EXCEPT !.state = "exited"]
    /\ UNCHANGED <<config, exitCode, run, stream, metrics>>
    /\ UNCHANGED notMainVars

\* runAttack: metrics.Close().
Close ==
    /\ mainpc = "closing"
    /\ mainpc' = "output"
    /\ metrics' = [metrics EXCEPT !.acc = MetricsClose(@), !.closes = @ + 1,
                                  !.by = @ \cup {MainTask}]
    /\ UNCHANGED <<config, exitCode, run, stream, reporter>>
    /\ UNCHANGED notMainVars

\* main: outputResults, and the return from main.
Output ==
    /\ mainpc = "output"
    /\ mainpc' = "exited"
    /\ exitCode' = exitSuccess
    /\ UNCHANGED <<config, run, stream, metrics, reporter>>
    /\ UNCHANGED notMainVars

(***************************************************************************)
(* Functions called on their own.                                          *)
(***************************************************************************)
NoResponse == [followed |-> 0, code |-> 0, error |-> NoError]

NoGiven ==
    [fn |-> "none", config |-> ZeroConfig, chain |-> 0, request |-> NoRequest,
     answer |-> NoAnswer, requests |-> << >>]

NoResult ==
    [config |-> ZeroConfig, client |-> createHeaderStrippingClient(ZeroConfig),
     response |-> NoResponse, sent |-> NoRequest, answer |-> NoAnswer,
     error |-> NoError, index |-> 0]

CallInit ==
    /\ given = NoGiven
    /\ result = NoResult

\* The configurations main hands on after applyDefaults and validateLimits.
ValidConfigs ==
    { applyDefaults(f) : f \in { g \in AnyConfigs : validateLimits(applyDefaults(g)) = NoError } }

\* config.applyDefaults() on a loaded configuration.
CallApplyDefaults(c) ==
    /\ given = NoGiven
    /\ given' = [NoGiven EXCEPT !.fn = "applyDefaults", !.config = c]
    /\ result' = [NoResult EXCEPT !.config = applyDefaults(c)]
    /\ UNCHANGED notCallVars

\* One request through the client of createHeaderStrippingClient(c), to a
\* server that answers with `chain` consecutive redirects.
CallClientDo(c, chain) ==
    /\ given = NoGiven
    /\ given' = [NoGiven EXCEPT !.fn = "Do", !.config = c, !.chain = chain]
    /\ result' = [NoResult EXCEPT
                     !.config = c,
                     !.client = createHeaderStrippingClient(c),
                     !.response = ClientDo(createHeaderStrippingClient(c), chain, 1)]
    /\ UNCHANGED notCallVars

\* validateLimits(&config): the error it returns and the configuration
\* behind the pointer after the call (the function only reads it).
CallValidateLimits(c) ==
    /\ given = NoGiven
    /\ given' = [NoGiven EXCEPT !.fn = "validateLimits", !.config = c]
    /\ result' = [NoResult EXCEPT !.config = c, !.error = validateLimits(c)]
    /\ UNCHANGED notCallVars

\* validateRequests(requests): the error it returns and the position the
\* error names.
CallValidateRequests(reqs) ==
    /\ given = NoGiven
    /\ given' = [NoGiven EXCEPT !.fn = "validateRequests", !.requests = reqs]
    /\ result' = [NoResult EXCEPT !.index = validateRequests(reqs).index,
                                  !.error = validateRequests(reqs).error]
    /\ UNCHANGED notCallVars

\* One request of the attacker through headerStrippingTransport.RoundTrip,
\* with a base transport that returns `answer`.
CallRoundTrip(req, answer) ==
    /\ given = NoGiven
    /\ given' = [NoGiven EXCEPT !.fn = "RoundTrip", !.request = req, !.answer = answer]
    /\ result' = [NoResult EXCEPT !.sent = RoundTrip(req, answer).sent,
                                  !.answer = RoundTrip(req, answer).answer]
    /\ UNCHANGED notCallVars

(***************************************************************************)
(* Specifications.                                                         *)
(***************************************************************************)
TargeterInit ==
    /\ constructed = FALSE
    /\ requests = << >>
    /\ processed = << >>
    /\ mem = [a \in {} |-> << >>]
    /\ counter = 0
    /\ pc = [t \in Tasks |-> "idle"]
    /\ ticket = [t \in Tasks |-> 0]
    /\ idx = [t \in Tasks |-> 0]
    /\ calls = 0
    /\ overlap = FALSE
    /\ returned = << >>
    /\ touched = {}

PacerInit ==
    /\ cfg = NoConfig
    /\ pacer = NoPacer
    /\ last = NoCall

Init == TargeterInit /\ PacerInit /\ MainInit /\ CallInit

\* The program: main builds the targeter from its non-empty request list and
\* the attacker's tasks call it; the attacker never writes through a target.
Next ==
    \/ \E reqs \in TemplateLists : CreateRotatingTargeter(reqs)
    \/ \E t \in Tasks : Fetch(t)
    \/ \E t \in Tasks : Fill(t)

Spec == Init /\ [][Next]_vars

\* The targeter with consumers that write through the targets they got.
NextConsumer ==
    \/ Next
    \/ \E j \in 1..MaxCalls : SetHeader(j, "X-Added", "v")
    \/ \E j \in 1..MaxCalls, k \in {"User-Agent", "X-Trace"} : DeleteHeader(j, k)
    \/ \E j \in 1..MaxCalls, k \in {"User-Agent", "X-Trace"} : OverwriteHeaderValue(j, k, "w")
    \/ \E j \in 1..MaxCalls : OverwriteBodyByte(j, "q")

SpecConsumer == Init /\ [][NextConsumer]_vars

\* A ramp-up run's pacer and the calls made on it.
NextPacer ==
    \/ \E d \in DurationValues, s \in RateValues, e \in RateValues, h \in HoldValues :
          CreateRampUpPacer(d, s, e, h)
    \/ \E elapsed \in ElapsedValues, hits \in HitValues : PaceCall(elapsed, hits)
    \/ \E elapsed \in ElapsedValues : RateCall(elapsed)

SpecPacer == Init /\ [][NextPacer]_vars

\* createRotatingTargeter called with any list, the empty one included.
AnyTemplateLists ==
    UNION { [1..n -> TemplatePool] : n \in 0..MaxTemplates }

NextAnyList ==
    \/ \E reqs \in AnyTemplateLists : CreateRotatingTargeter(reqs)
    \/ \E t \in Tasks : Fetch(t)
    \/ \E t \in Tasks : Fill(t)

SpecAnyList == Init /\ [][NextAnyList]_vars

\* A targeter that has been in use for any number of calls: its counter
\* holds any value of its type.
CounterValues == 0..(Pow2(CounterBits) - 1)

UsedTargeterInit ==
    /\ PacerInit /\ MainInit /\ CallInit
    /\ constructed = TRUE
    /\ \E reqs \in TemplateLists, c \in CounterValues :
          /\ requests = reqs
          /\ processed = [i \in DOMAIN reqs |-> ProcessRequest(i, reqs[i])]
          /\ mem = ProcessedHeap(reqs)
          /\ counter = c
    /\ pc = [t \in Tasks |-> "idle"]
    /\ ticket = [t \in Tasks |-> 0]
    /\ idx = [t \in Tasks |-> 0]
    /\ calls = 0
    /\ overlap = FALSE
    /\ returned = << >>
    /\ touched = {}

NextUsedTargeter ==
    \/ \E t \in Tasks : Fetch(t)
    \/ \E t \in Tasks : Fill(t)

SpecUsedTargeter == UsedTargeterInit /\ [][NextUsedTargeter]_vars

\* One run of the program, from the command line to the exit, against a
\* server that answers every request with 200.
NextMain ==
    \/ \E json \in BOOLEAN, outcome \in {"noFlag", "loadError"} :
          LoadConfig(json, outcome, ZeroConfig)
    \/ \E json \in BOOLEAN, file \in ConfigFiles : LoadConfig(json, "ok", file)
    \/ CheckRequests
    \/ ValidateRequests
    \/ ApplyDefaults
    \/ ValidateLimits
    \/ WarmUp
    \/ StartAttack
    \/ \E elapsed \in AttackElapsed(config.Duration * Second),
          outcome \in { o \in Outcomes : o.Code = 200 } :
          AttackTurn(elapsed, outcome)
    \/ \E i \in 1..MaxResults : AddResult(i)
    \/ DrainEnd
    \/ Tick
    \/ \E elapsed \in AttackElapsed(config.Duration * Second) : ReportTick(elapsed)
    \/ StopTicker
    \/ SendTickerDone
    \/ Close
    \/ Output

SpecMain == Init /\ [][NextMain]_vars

\* runAttack, entered by main after the warm-up with a configuration that
\* passed the preconditions, against a server of any behaviour.
RunFiles ==
    { [BareConfig EXCEPT !.Duration = MaxDuration, !.Rate = MaxRate] }
      \cup { [BareConfig EXCEPT !.Duration = MaxDuration,
                                !.RampUp = Ptr(RampUpConfig(0, 2, h))] : h \in RampHoldInputs }

RunInit ==
    /\ TargeterInit /\ PacerInit /\ CallInit
    /\ mainpc = "warm"
    /\ exitCode = NotExited
    /\ stream = NoStream
    /\ metrics = NoMetrics
    /\ reporter = NoReporter
    /\ \E json \in BOOLEAN, file \in RunFiles :
          /\ config = applyDefaults(file)
          /\ run = [NoRun EXCEPT !.json = json, !.load = "ok", !.loaded = file,
                                 !.warmed = TRUE]

NextRun ==
    \/ StartAttack
    \/ \E elapsed \in AttackElapsed(config.Duration * Second), outcome \in Outcomes :
          AttackTurn(elapsed, outcome)
    \/ \E i \in 1..MaxResults : AddResult(i)
    \/ DrainEnd
    \/ Tick
    \/ \E elapsed \in AttackElapsed(config.Duration * Second) : ReportTick(elapsed)
    \/ StopTicker
    \/ SendTickerDone
    \/ Close

SpecRun == RunInit /\ [][NextRun]_vars

\* runAttack under the scheduling Go gives it: the task that ranges over
\* the result stream is not held back for ever once the stream is closed,
\* nor once the ticker is to be stopped, and a send on tickerDone that stays
\* possible (the goroutine is at its select) takes place.
SpecRunLive ==
    /\ RunInit /\ [][NextRun]_vars
    /\ WF_vars(DrainEnd)
    /\ WF_vars(StopTicker)
    /\ WF_vars(SendTickerDone)

\* applyDefaults, the client, its transport and the validation, each called
\* on its own.
NextCalls ==
    \/ \E c \in AnyConfigs : CallApplyDefaults(c)
    \/ \E c \in ValidConfigs, chain \in 0..MaxChain : CallClientDo(c, chain)
    \/ \E req \in HitRequests, answer \in BaseAnswers : CallRoundTrip(req, answer)
    \/ \E c \in LimitCallConfigs : CallValidateLimits(c)
    \/ \E reqs \in CallRequestLists : CallValidateRequests(reqs)

SpecCalls == Init /\ [][NextCalls]_vars


(***************************************************************************)
(* Claims about the rotating targeter.                                     *)
(***************************************************************************)
InFlight == { t \in Tasks : pc[t] = "fetched" }

\* The counter values handed out so far, to calls in flight and returned.
TicketsOut ==
    { ticket[t] : t \in InFlight } \cup { returned[j].ticket : j \in DOMAIN returned }

\* How many calls, in flight or returned, selected index i.
SelectedCount(i) ==
    Cardinality({ t \in InFlight : idx[t] = i })
      + Cardinality({ j \in DOMAIN returned : returned[j].idx = i })

\* C1: concurrent targeter calls each obtain a distinct counter value, and
\* the K calls that have selected an index (in any interleaving, all of
\* them returned or some still in flight) selected exactly the multiset
\* {0 mod N, ..., (K-1) mod N}: no index skipped, none handed out twice.
C1_NoSkippedOrDuplicatedIndex ==
    (constructed /\ ~Crashed) =>
        LET N == Len(processed)
            K == Cardinality(InFlight) + Len(returned)
        IN  /\ K = calls
            /\ TicketsOut = 0..(K - 1)
            /\ \A t \in InFlight : idx[t] \in 0..(N - 1)
            /\ \A j \in DOMAIN returned : returned[j].idx \in 0..(N - 1)
            /\ \A i \in 0..(N - 1) :
                  SelectedCount(i) = Cardinality({ c \in 0..(K - 1) : c % N = i })

\* Calls overlapped, all have returned, and the rotation wrapped around.
C1_Witness ==
    /\ overlap /\ InFlight = {}
    /\ Len(processed) = 2
    /\ Len(returned) >= 3

\* C2: under sequential calls the i-th call (from 0) fills the target with
\* the method, URL, body and headers of templates[i mod N], and after M
\* calls every template was selected floor(M/N) or ceil(M/N) times.
C2_SequentialRoundRobin ==
    (constructed /\ ~overlap) =>
        LET N == Len(requests)
            M == Len(returned)
        IN  /\ \A j \in DOMAIN returned :
                  /\ returned[j].idx = (j - 1) % N
                  /\ View(returned[j].tgt) = TemplateView(requests[((j - 1) % N) + 1])
            /\ \A i \in 0..(N - 1) :
                  LET c == Cardinality({ j \in DOMAIN returned : returned[j].idx = i })
                  IN  /\ c >= M \div N
                      /\ c <= (M + N - 1) \div N

\* Three sequential calls on two different templates.
C2_Witness ==
    /\ ~overlap /\ InFlight = {}
    /\ Len(requests) = 2 /\ requests[1] /= requests[2]
    /\ Len(returned) = 3

\* C3: a mutation a consumer applies to the target of one call is not
\* observable through the target of any other call nor through the stored
\* template: every target its own consumer has not written to, and every
\* stored template, still reads as the request it was built from.
C3_IndependentCopies ==
    constructed =>
        /\ \A j \in DOMAIN returned :
              j \notin touched =>
                  View(returned[j].tgt) = TemplateView(requests[returned[j].idx + 1])
        /\ \A i \in DOMAIN processed : StoredView(i) = TemplateView(requests[i])

(***************************************************************************)
(* Claims about the ramp-hold pacer and createRampUpPacer.                 *)
(***************************************************************************)
IsRampHold == pacer.kind = "rampHold"

DoneAt == pacer.rampDuration + pacer.holdDuration

\* C4: Pace(elapsed, n) of a ramp-hold pacer returns done = true if and
\* only if elapsed >= rampDuration + holdDuration, for every n; so once it
\* has returned done for some elapsed, it returns done for every later one.
C4_DoneIffScheduleOver ==
    (IsRampHold /\ last.op = "Pace") =>
        /\ last.done <=> last.elapsed >= DoneAt
        /\ last.done =>
              \A e \in ElapsedValues, n \in HitValues :
                  e >= last.elapsed => Pace(pacer, e, n).done

\* Pace was called exactly at the end of the schedule.
C4_Witness ==
    /\ IsRampHold /\ last.op = "Pace"
    /\ last.elapsed = DoneAt /\ last.done /\ last.hits > 0

\* C5: when the rate at an elapsed time before the end of the schedule is
\* zero or negative, Pace returns a wait of exactly one second and
\* done = false, and does not fault.
C5_FallbackWaitOnNonPositiveRate ==
    (IsRampHold /\ last.op = "Pace" /\ last.elapsed < DoneAt
       /\ RatLE(Rate(pacer, last.elapsed), FromInt(0))) =>
        /\ last.wait = Second
        /\ ~last.done
        /\ ~last.panic

\* Pace was called where the rate is exactly zero, partway through the run.
C5_Witness ==
    /\ IsRampHold /\ last.op = "Pace"
    /\ 0 < last.elapsed /\ last.elapsed < DoneAt
    /\ Rate(pacer, last.elapsed) = FromInt(0)

\* C6: when the rate r at an elapsed time before the end of the schedule is
\* positive, the wait Pace returns is one second divided by r, up to the
\* rounding of one tick, also when r is not a whole number.
C6_WaitIsReciprocalOfRate ==
    (IsRampHold /\ last.op = "Pace" /\ last.elapsed < DoneAt
       /\ RatLT(FromInt(0), Rate(pacer, last.elapsed))) =>
        LET r == Rate(pacer, last.elapsed)
            floor == (Second * r.d) \div r.n
            exact == (Second * r.d) % r.n = 0
        IN  /\ ~last.panic
            /\ ~last.done
            /\ last.wait \in (IF exact THEN {floor} ELSE {floor, floor + 1})

\* C7: with rampDuration > 0, Rate(0) = startRate, Rate(rampDuration) =
\* endRate, Rate(t) = startRate + (endRate - startRate) * t / rampDuration
\* for 0 <= t < rampDuration, and Rate(t) = endRate for t >= rampDuration.
C7_RateIsLinearThenHeld ==
    (IsRampHold /\ last.op = "Rate") =>
        LET t == last.elapsed
            ramp == pacer.rampDuration
        IN  /\ ramp > 0
            /\ t = 0 => last.rate = FromInt(pacer.startRate)
            /\ t = ramp => last.rate = FromInt(pacer.endRate)
            /\ t < ramp =>
                  last.rate.n * ramp =
                      (pacer.startRate * ramp + (pacer.endRate - pacer.startRate) * t)
                        * last.rate.d
            /\ t >= ramp => last.rate = FromInt(pacer.endRate)

\* Rate was called inside the ramp, where the rate is not a whole number.
C7_Witness ==
    /\ IsRampHold /\ last.op = "Rate"
    /\ 0 < last.elapsed /\ last.elapsed < pacer.rampDuration
    /\ last.rate.d > 1

\* C8: with startRate < endRate, Rate is non-decreasing in the elapsed
\* time, and equal to endRate throughout the hold phase.
C8_RateNonDecreasing ==
    (IsRampHold /\ last.op = "Rate" /\ pacer.startRate < pacer.endRate) =>
        /\ \A t1 \in ElapsedValues :
              t1 <= last.elapsed => RatLE(Rate(pacer, t1), last.rate)
        /\ last.elapsed >= pacer.rampDuration => last.rate = FromInt(pacer.endRate)

\* Rate was called in the hold phase of a rising ramp.
C8_Witness ==
    /\ IsRampHold /\ last.op = "Rate"
    /\ pacer.startRate < pacer.endRate
    /\ pacer.rampDuration >= 2 * Second
    /\ last.elapsed > pacer.rampDuration /\ last.elapsed < DoneAt

\* C9: with holdDuration >= duration the pacer createRampUpPacer returns is
\* the constant pacer at endRate, whatever the start rate, and every Pace
\* call on it returns what the constant pacer at endRate returns.
C9_LongHoldIsConstantPacer ==
    (pacer /= NoPacer /\ cfg.HoldDuration >= cfg.Duration) =>
        LET constant == ConstantPacer(cfg.EndRate, Second)
        IN  /\ pacer = constant
            /\ \A s \in RateValues :
                  createRampUpPacer(s, cfg.EndRate, cfg.Duration * Second,
                                    cfg.HoldDuration * Second) = constant
            /\ last.op = "Pace" =>
                  [wait |-> last.wait, done |-> last.done, panic |-> last.panic]
                      = ConstantPace(constant, last.elapsed, last.hits)

\* Pace was called on the pacer of a ramp whose hold takes the whole run.
C9_Witness ==
    /\ pacer /= NoPacer /\ cfg.HoldDuration = cfg.Duration
    /\ cfg.StartRate /= cfg.EndRate /\ cfg.EndRate > 0
    /\ last.op = "Pace" /\ last.elapsed > 0

\* C10: with holdDuration = 0 createRampUpPacer returns a linear pacer that
\* starts at startRate with slope (endRate - startRate) / durationSeconds:
\* its rate is startRate at elapsed 0 and endRate at elapsed = duration.
C10_NoHoldIsLinearPacer ==
    (pacer /= NoPacer /\ cfg.HoldDuration = 0) =>
        /\ pacer.kind = "linear"
        /\ pacer.StartAt = [Freq |-> cfg.StartRate, Per |-> Second]
        /\ pacer.Slope.n * cfg.Duration = (cfg.EndRate - cfg.StartRate) * pacer.Slope.d
        /\ (last.op = "Rate" /\ last.elapsed = 0) => last.rate = FromInt(cfg.StartRate)
        /\ (last.op = "Rate" /\ last.elapsed = cfg.Duration * Second) =>
              last.rate = FromInt(cfg.EndRate)

\* Rate was called at the end of a ramp without hold.
C10_Witness ==
    /\ pacer /= NoPacer /\ cfg.HoldDuration = 0
    /\ cfg.StartRate /= cfg.EndRate /\ cfg.Duration > 1
    /\ last.op = "Rate" /\ last.elapsed = cfg.Duration * Second

(***************************************************************************)
(* Claims about a run: the metrics accumulator.                            *)
(***************************************************************************)
\* runAttack was entered.
InRunAttack == run.path /= "none"
\* runAttack has returned.
RunEnded == InRunAttack /\ mainpc \in {"output", "exited"}

\* C11: in a run of runAttack the metrics accumulator is closed exactly once
\* and only after the result stream is drained: a Close finds the attacker
\* stopped, no result in flight and every result added, no Add follows a
\* Close, and runAttack has returned, on the constant-rate path and on the
\* ramp path alike, exactly when the one Close has been made.
C11_ClosedOnceAfterDrain ==
    /\ metrics.closes <= 1
    /\ metrics.addsAfterClose = 0
    /\ metrics.closes = 1 =>
          /\ stream.stopped
          /\ stream.inflight = {}
          /\ Len(metrics.added) = stream.hits
    /\ InRunAttack => (RunEnded <=> metrics.closes = 1)
    /\ ~InRunAttack => metrics.closes = 0

\* A ramp run with its progress goroutine has added two results and closed.
C11_Witness ==
    /\ run.path = "ramp"
    /\ reporter.state = "exited"
    /\ metrics.closes = 1
    /\ Len(metrics.added) = 2

\* C12: every outcome record, a success, an HTTP error status or a transport
\* failure, is added to the metrics exactly once: a hit produces one record
\* and is not reissued, no record is added twice, a failure does not end
\* the run (the process dies only of a fault in the ramp pacer and exits
\* with an error only before the attack), and when runAttack has returned the
\* request count is the number of records produced.
C12_EveryOutcomeCountedOnce ==
    /\ Len(stream.produced) = stream.hits
    /\ \A i, j \in 1..Len(metrics.added) :
          i /= j => metrics.added[i] /= metrics.added[j]
    /\ metrics.acc.Requests = Len(metrics.added)
    /\ { metrics.added[i] : i \in 1..Len(metrics.added) } \cup stream.inflight
          = 1..stream.hits
    /\ mainpc = "crashed" => run.pacer.kind = "rampHold"
    /\ exitCode = exitError => stream.hits = 0
    /\ RunEnded => metrics.acc.Requests = Len(stream.produced)

\* A run that met an HTTP error status and a transport failure has returned
\* with both counted.
C12_Witness ==
    /\ RunEnded
    /\ \E i, j \in 1..Len(stream.produced) :
          stream.produced[i].Code = 500 /\ stream.produced[j].Code = 0
    /\ metrics.acc.Requests = 2

\* C13: whatever the order in which the results arrive, the closed metrics
\* hold the request count, byte totals, status-code histogram and success
\* ratio that adding the same records in the order of dispatch gives.
C13_ArrivalOrderDoesNotMatter ==
    metrics.closes = 1 =>
        LET inOrder == MetricsClose(AddAll(ZeroMetrics, stream.produced))
        IN  /\ metrics.acc.Requests = inOrder.Requests
            /\ metrics.acc.BytesIn = inOrder.BytesIn
            /\ metrics.acc.BytesOut = inOrder.BytesOut
            /\ metrics.acc.StatusCodes = inOrder.StatusCodes
            /\ metrics.acc.Success = inOrder.Success

\* Two different records arrived in the reverse of their dispatch order.
C13_Witness ==
    /\ metrics.closes = 1
    /\ metrics.added = <<2, 1>>
    /\ stream.produced[1] /= stream.produced[2]

(***************************************************************************)
(* Claims about the preconditions of a run.                                *)
(***************************************************************************)
\* A schedule that names a constant rate and a ramp, or a ramp whose hold
\* is not shorter than the run.
Contradictory(c) ==
    /\ c.RampUp /= NilPtr
    /\ \/ c.Rate /= 0
       \/ PtrValue(c.RampUp).HoldDuration >= c.Duration

\* C14: a configuration with a contradictory schedule (a constant rate
\* together with a ramp, or a ramp whose hold duration is at least the total
\* duration) never reaches the attack: no pacer is built for it and no hit is
\* dispatched.
C14_ContradictoryScheduleIsFatal ==
    run.load = "ok" /\ Contradictory(applyDefaults(run.loaded))
        => run.path = "none" /\ stream.hits = 0

\* The rates of a schedule lie within the safety bounds.
RatesInBounds(c) ==
    IF c.RampUp = NilPtr
    THEN c.Rate \in 0..maxTestRate
    ELSE /\ PtrValue(c.RampUp).StartRate \in 0..maxTestRate
         /\ PtrValue(c.RampUp).EndRate \in 0..maxTestRate

\* C15: once a hit has been dispatched, the constant rate, or the ramp's
\* start rate and end rate, lie within 0..maxTestRate.
C15_DispatchedRatesWithinBounds ==
    stream.hits > 0 => RatesInBounds(config)

\* C16: createRotatingTargeter never returns a targeter for an empty
\* template list, and so no call of a targeter faults for want of templates.
C16_EmptyListFailsAtConstruction ==
    /\ constructed => Len(requests) > 0
    /\ ~Crashed

\* The warm-up or the attack has begun.
PastPreconditions ==
    run.warmed \/ InRunAttack \/ stream.hits > 0
        \/ mainpc \in {"warm", "attack", "drained", "sending", "closing", "output", "crashed"}

\* C17: main begins the warm-up and the attack only with a file that loaded,
\* a non-empty request list whose requests all pass validation, and the
\* defaulted configuration within the limits; each step is taken only after
\* the steps before it succeeded, and a run that ends before the warm-up
\* exits with code 1, having dispatched nothing.
C17_NoDispatchBeforeValidation ==
    /\ mainpc \notin {"start", "exited"} => run.load = "ok"
    /\ mainpc \notin {"start", "loaded", "exited"} => Len(run.loaded.Requests) > 0
    /\ mainpc \notin {"start", "loaded", "nonEmpty", "exited"} =>
          \A i \in 1..Len(run.loaded.Requests) :
              RequestError(run.loaded.Requests[i]) = NoError
    /\ mainpc \notin {"start", "loaded", "nonEmpty", "validated", "exited"} =>
          config = applyDefaults(run.loaded)
    /\ PastPreconditions =>
          /\ run.load = "ok"
          /\ Len(run.loaded.Requests) > 0
          /\ \A i \in 1..Len(run.loaded.Requests) :
                RequestError(run.loaded.Requests[i]) = NoError
          /\ config = applyDefaults(run.loaded)
          /\ validateLimits(config) = NoError
          /\ exitCode /= exitError
    /\ mainpc = "exited" /\ ~run.warmed =>
          /\ exitCode = exitError
          /\ stream.hits = 0
          /\ ~InRunAttack

\* A run whose file left the defaults to main has dispatched a hit.
C17_Witness ==
    /\ stream.hits > 0
    /\ config /= run.loaded
    /\ validateLimits(config) = NoError

(***************************************************************************)
(* Claims about the defaults and the client.                               *)
(***************************************************************************)
Min(a, b) == IF a < b THEN a ELSE b

\* C18: with redirects = n the client follows the k-th redirect of a chain
\* exactly when k <= n: of a chain of `chain` redirects it follows
\* Min(n, chain), and it returns the last redirect response when the chain
\* is longer than n.
C18_RedirectLimitIsMaximumFollowed ==
    given.fn = "Do" /\ given.config.Redirects /= NilPtr =>
        LET n == PtrValue(given.config.Redirects)
        IN  /\ result.response.followed = Min(n, given.chain)
            /\ result.response.error = NoError
            /\ result.response.code = IF given.chain > n THEN 302 ELSE 200

\* What applyDefaults leaves alone.
OtherFieldsKept(c, d) ==
    /\ d.RampUp = c.RampUp
    /\ d.KeepAlive = c.KeepAlive
    /\ d.HTTP2 = c.HTTP2
    /\ d.Redirects = c.Redirects
    /\ d.ConnectionPool = c.ConnectionPool
    /\ d.Requests = c.Requests

Defaulted(value, default) == IF value /= 0 THEN value ELSE default

C20_OmittedTransportSettingsAreOff ==
    ( /\ given.fn = "Do"
      /\ given.config.KeepAlive = NilPtr
      /\ given.config.HTTP2 = NilPtr
      /\ given.config.Redirects = NilPtr )
        => /\ ~KeepsAlive(result.client)
           /\ ~UsesHTTP2(result.client)
           /\ result.response.followed = 0

(***************************************************************************)
(* Claims about the schedule during a run.                                 *)
(***************************************************************************)
\* The pacer createRampUpPacer built from the run's configuration.
BuiltPacer ==
    createRampUpPacer(cfg.StartRate, cfg.EndRate, cfg.Duration * Second,
                      cfg.HoldDuration * Second)

\* C21: no call to Pace or Rate of the ramp-hold pacer changes startRate,
\* endRate, rampDuration or holdDuration: after any sequence of calls the
\* pacer is still the one that was built, and what a call returns for an
\* elapsed time is what the built pacer returns for it, whatever the
\* requestsSoFar of the call and whatever calls came before.
C21_ScheduleImmutable ==
    IsRampHold =>
        /\ pacer = BuiltPacer
        /\ last.op = "Pace" =>
              \A n \in HitValues :
                  [wait |-> last.wait, done |-> last.done, panic |-> last.panic]
                      = Pace(BuiltPacer, last.elapsed, n)
        /\ last.op = "Rate" => last.rate = Rate(BuiltPacer, last.elapsed)

\* Pace was called partway through a ramp with a non-zero requestsSoFar.
C21_Witness ==
    /\ IsRampHold /\ last.op = "Pace"
    /\ last.hits > 0
    /\ 0 < last.elapsed /\ last.elapsed < pacer.rampDuration
    /\ pacer.startRate /= pacer.endRate
    /\ ~last.panic

\* C22: for a ramp-hold pacer with startRate >= 0 and endRate >= 0 and an
\* elapsed time with 0 <= elapsed < rampDuration + holdDuration, Pace does
\* not fault and returns a strictly positive wait, also where the rate is
\* strictly between 0 and 1 request per second.
C22_PaceNeverFaults ==
    (IsRampHold /\ last.op = "Pace"
       /\ pacer.startRate >= 0 /\ pacer.endRate >= 0
       /\ 0 <= last.elapsed /\ last.elapsed < DoneAt) =>
        /\ ~last.panic
        /\ last.wait > 0

\* C26: for every ramp-hold pacer createRampUpPacer returns,
\* rampDuration + holdDuration = duration and rampDuration > 0: the hold is
\* part of the total duration, and the pacer reports done exactly from the
\* run's duration on.
C26_HoldIsPartOfDuration ==
    IsRampHold =>
        /\ pacer.rampDuration + pacer.holdDuration = cfg.Duration * Second
        /\ pacer.rampDuration > 0
        /\ last.op = "Pace" => (last.done <=> last.elapsed >= cfg.Duration * Second)

\* A pacer with a ramp and a hold, asked exactly at the run's duration.
C26_Witness ==
    /\ IsRampHold /\ pacer.holdDuration > 0
    /\ pacer.rampDuration < cfg.Duration * Second
    /\ last.op = "Pace" /\ last.elapsed = cfg.Duration * Second /\ last.done

(***************************************************************************)
(* Claims about the rotation counter over its whole range.                 *)
(***************************************************************************)
\* C27: for every value of the unsigned rotation counter, the values at or
\* above the sign bit and the wrap-around to 0 included, the index a call
\* computes lies in 0..N-1, so no call indexes outside the template list
\* (CounterBits stands for the 64 bits of the counter).
C27_IndexInRangeForEveryCounter ==
    /\ ~Crashed
    /\ \A t \in InFlight : idx[t] \in 0..(Len(processed) - 1)
    /\ \A j \in DOMAIN returned : returned[j].idx \in 0..(Len(processed) - 1)

(***************************************************************************)
(* Claims about the tasks of a run.                                        *)
(***************************************************************************)
OnRampPath == run.path = "ramp"

\* The attack's result stream is closed and runRampUpAttack has not yet
\* returned.
StreamClosed ==
    /\ OnRampPath
    /\ mainpc \in {"attack", "drained", "sending"}
    /\ stream.stopped /\ stream.inflight = {}

\* runRampUpAttack has returned to runAttack.
RampAttackReturned == OnRampPath /\ mainpc \in {"closing", "output", "exited"}

\* C23: runRampUpAttack always returns once the attack's result stream is
\* closed.  In non-JSON mode the send on tickerDone is received by the
\* progress goroutine in every interleaving with the ticks, the goroutine
\* has then ended and prints nothing more; in JSON mode no goroutine is
\* started and no send on tickerDone is attempted.
C23_RampAttackAlwaysReturns ==
    /\ StreamClosed ~> RampAttackReturned
    /\ [](RampAttackReturned => reporter.state = IF run.json THEN "none" ELSE "exited")
    /\ [][reporter.state = "exited" =>
              /\ reporter'.state = "exited"
              /\ reporter'.printed = reporter.printed]_vars
    /\ []((OnRampPath /\ run.json) =>
             /\ reporter = NoReporter
             /\ mainpc \notin {"drained", "sending"})

\* A non-JSON ramp run whose ticker fired and whose goroutine took the tick
\* and later the value sent on tickerDone.
C23_Witness ==
    /\ OnRampPath /\ ~run.json
    /\ mainpc = "closing"
    /\ reporter.state = "exited" /\ reporter.stopped
    /\ reporter.ticks > 0 /\ reporter.tick = 0

\* A step of the progress goroutine or of the ticker, and of nothing else.
ReporterStep == reporter' /= reporter /\ mainpc' = mainpc

\* C24: the metrics accumulator of a run is only ever touched by one task:
\* every Add and the Close are made by the task that drains the result
\* stream, whatever the number of hits in flight, so no two of them run
\* concurrently; the progress goroutine never reads or writes it.
C24_MetricsTouchedByOneTask ==
    /\ [](metrics.by \subseteq {MainTask} /\ ReporterTask \notin metrics.by)
    /\ [][ReporterStep => metrics' = metrics]_vars

\* A non-JSON ramp run in which the ticker fired, two results were added and
\* the accumulator was closed.
C24_Witness ==
    /\ metrics.closes = 1
    /\ Len(metrics.added) >= 2
    /\ metrics.by = {MainTask}
    /\ reporter.state = "exited" /\ reporter.ticks > 0

(***************************************************************************)
(* Claims about the transport.                                             *)
(***************************************************************************)
\* A header name as the protocol compares it: without regard to case.
FieldName(k) ==
    CASE k \in {"X-Vegeta-Seq", "x-vegeta-seq", "X-VEGETA-SEQ"} -> "x-vegeta-seq"
      [] k \in {"X-Vegeta-Attack", "x-vegeta-attack", "X-VEGETA-ATTACK"} -> "x-vegeta-attack"
      [] k \in {"X-Trace", "x-trace"} -> "x-trace"
      [] OTHER -> k

IsVegetaHeader(k) == FieldName(k) \in {"x-vegeta-attack", "x-vegeta-seq"}

\* C25: every request RoundTrip hands to the base transport carries neither
\* an X-Vegeta-Attack nor an X-Vegeta-Seq header, whether or not the
\* incoming request had them; every other header, the method, the URL and
\* the body are passed through unchanged, and the base transport's response
\* and error are returned unmodified.
C25_VegetaHeadersStripped ==
    given.fn = "RoundTrip" =>
        /\ \A k \in DOMAIN result.sent.Header : ~IsVegetaHeader(k)
        /\ \A k \in DOMAIN given.request.Header :
              ~IsVegetaHeader(k) =>
                  /\ k \in DOMAIN result.sent.Header
                  /\ result.sent.Header[k] = given.request.Header[k]
        /\ DOMAIN result.sent.Header \subseteq DOMAIN given.request.Header
        /\ result.sent.Method = given.request.Method
        /\ result.sent.URL = given.request.URL
        /\ result.sent.Body = given.request.Body
        /\ result.answer = given.answer

(***************************************************************************)
(* Claims about the validation.                                            *)
(***************************************************************************)
\* C28: validateLimits returns no error if and only if
\* 0 <= duration <= 1800, 0 <= rate <= 10000, 0 <= timeout <= 30,
\* warmupDelay >= 0 and redirects, when present, >= 0; otherwise it returns
\* an error; in neither case does it modify the configuration.
C28_LimitsAcceptedIffInRange ==
    given.fn = "validateLimits" =>
        LET c == given.config
            inRange ==
                /\ 0 <= c.Duration /\ c.Duration <= 1800
                /\ 0 <= c.Rate /\ c.Rate <= 10000
                /\ 0 <= c.Timeout /\ c.Timeout <= 30
                /\ c.WarmupDelay >= 0
                /\ c.Redirects /= NilPtr => PtrValue(c.Redirects) >= 0
        IN  /\ result.error = NoError <=> inRange
            /\ result.config = c

\* A configuration with every value at its maximum was accepted.
C28_Witness ==
    /\ given.fn = "validateLimits"
    /\ given.config.Duration = 1800 /\ given.config.Rate = 10000
    /\ given.config.Timeout = 30 /\ given.config.Redirects = Ptr(0)
    /\ result.error = NoError

\* The spellings of the model's methods that are, without regard to case,
\* one of GET, POST, PUT, DELETE, PATCH, HEAD, OPTIONS.
AllowedSpellings ==
    {"GET", "POST", "PUT", "DELETE", "PATCH", "HEAD", "OPTIONS", "get", "Post"}

\* A target as the claim approves it: scheme http or https, and a host that
\* is localhost or 127.0.0.1 without regard to case, or an IP literal inside
\* 10.0.0.0/8, 172.16.0.0/12 or 192.168.0.0/16.
ApprovedByClaim(u) ==
    LET parsed == ParseURL(u)
        ip == ParseIP(parsed.host)
    IN  /\ parsed.scheme \in {"http", "https"}
        /\ \/ parsed.host \in {"localhost", "LocalHost", "LOCALHOST", "127.0.0.1"}
           \/ /\ ip /= << >>
              /\ \/ ip[1] = 10
                 \/ ip[1] = 172 /\ 16 <= ip[2] /\ ip[2] <= 31
                 \/ ip[1] = 192 /\ ip[2] = 168

\* C29: validateRequests returns no error if and only if every request has
\* an allowed HTTP method (compared without regard to case) and an approved
\* target; otherwise the error names the lowest-indexed offending request
\* by its 1-based position, a bad method being reported before a bad URL of
\* the same request.
C29_RequestsAcceptedIffAllApproved ==
    given.fn = "validateRequests" =>
        LET reqs == given.requests
            badMethod == { i \in 1..Len(reqs) : reqs[i].Method \notin AllowedSpellings }
            badTarget == { i \in 1..Len(reqs) : ~ApprovedByClaim(reqs[i].URL) }
            bad == badMethod \cup badTarget
        IN  /\ result.error = NoError <=> bad = {}
            /\ bad /= {} =>
                  /\ result.index \in bad
                  /\ \A i \in bad : result.index <= i
                  /\ result.error = "invalid HTTP method" <=> result.index \in badMethod

\* The second request has a bad method and a bad URL, the first is good.
C29_Witness ==
    /\ given.fn = "validateRequests"
    /\ Len(given.requests) = 2
    /\ given.requests[1].Method = "get"
    /\ given.requests[2].Method = "trace"
    /\ given.requests[2].URL = "http://example.com/"
    /\ result.index = 2
    /\ result.error = "invalid HTTP method"

====
